---- MODULE Spec2Model ----
(***************************************************************************)
(* Simple serial buffer of the ESP8266 WiFi driver (ESP8266_Serial.c):     *)
(* a receive ring RxBuf filled by the CMSIS USART driver, a single-slot    *)
(* transmit buffer TxBuf, the counters of SERIAL_COM and the driver event  *)
(* callback.  Every API function and the callback is one action; the       *)
(* USART driver is the environment, modelled by the Drv* operators.        *)
(***************************************************************************)
EXTENDS Integers, Sequences, FiniteSets, TLC

\* Buffer sizes (scaled down; the receive size stays a power of two).
SERIAL_TXBUF_SZ == 1
SERIAL_RXBUF_SZ == 2

\* Width of the uint32_t counters of SERIAL_COM, scaled down.
CounterBits == 4
Modulus == 2 ^ CounterBits

\* Receive-complete notifications allowed since the last counter reset; keeps
\* Com.rxc below the point where the counters wrap.
MaxCompletions == 2
\* How far a requested length may exceed the buffer capacity.
MaxOver == 1

Byte == {0, 1}
Status == {"OK", "ERROR"}
ARM_USART_EVENTS == {"RX_TIMEOUT", "RECEIVE_COMPLETE", "SEND_COMPLETE", "OTHER"}
Payloads == UNION {[1..n -> Byte] : n \in 0..(SERIAL_TXBUF_SZ + MaxOver)}
ReadLens == 0..(SERIAL_RXBUF_SZ + MaxOver)

VARIABLES
    Com,      \* SERIAL_COM: drv (bound or NULL), rxc, rxi, txi, txb
    RxBuf,    \* receive buffer, index 0..SERIAL_RXBUF_SZ-1
    TxBuf,    \* transmit buffer, index 0..SERIAL_TXBUF_SZ-1
    Drv,      \* USART driver: power, receive request, transmit request
    stream,   \* history: bytes stored since the last reset and not yet read
    sync,     \* history: the last reset armed a receive and no unread byte was overwritten since
    op,       \* the operation that ran last
    arg,      \* its argument (length, payload or event set)
    ret,      \* its return value
    out,      \* the bytes Serial_ReadBuf put into buf
    expect,   \* history: the bytes the same read returns from an unbounded buffer
    trace,    \* driver calls and counter updates of the last operation, in program order
    fails,    \* the driver calls of the last operation that returned an error
    cb,       \* the flags of each Serial_Cb call of the last operation
    pc,       \* where the application is inside an API function ("idle": outside)
    loc       \* the locals of the API function the application is in

vars == <<Com, RxBuf, TxBuf, Drv, stream, sync, op, arg, ret, out, expect, trace, fails, cb,
          pc, loc>>

Min(a, b) == IF a < b THEN a ELSE b

Zeroes(n) == [i \in 0..(n - 1) |-> 0]

\* The statuses a driver call can return if the code makes it; a call the
\* code skips returns nothing, and its status is a placeholder never read.
Made(called, statuses) == IF called THEN statuses ELSE {"ERROR"}

\* The calls among the pairs <<call, status>> that returned an error.
Failed(calls) == {c[1] : c \in {x \in calls : x[2] # "OK"}}

----------------------------------------------------------------------------
\* The USART driver (Driver_USART.h contract as used by this file).

DrvOff ==
    [power |-> FALSE, rxArmed |-> FALSE, rxOff |-> 0, rxNum |-> 0, rxCnt |-> 0,
     txBusy |-> FALSE, txNum |-> 0]

\* Statuses a call may return: a driver without power, or busy with the same
\* kind of transfer, rejects; otherwise it may accept or reject.  A request is
\* in flight from the accepted call until the driver signals its completion,
\* and the receive count is that of the request in flight (0 without one).
DrvControlStatus(d) == IF d.power THEN Status ELSE {"ERROR"}
DrvReceiveStatus(d) == IF d.power /\ ~d.rxArmed THEN Status ELSE {"ERROR"}
DrvSendStatus(d) == IF d.power /\ ~d.txBusy THEN Status ELSE {"ERROR"}

DrvPowerFull(d, stat) == IF stat = "OK" THEN [d EXCEPT !.power = TRUE] ELSE d

DrvReceive(d, off, num, stat) ==
    IF stat = "OK"
    THEN [d EXCEPT !.rxArmed = TRUE, !.rxOff = off, !.rxNum = num, !.rxCnt = 0]
    ELSE d

DrvAbortReceive(d, stat) ==
    IF stat = "OK" THEN [d EXCEPT !.rxArmed = FALSE, !.rxCnt = 0] ELSE d

DrvSend(d, num, stat) ==
    IF stat = "OK" THEN [d EXCEPT !.txBusy = TRUE, !.txNum = num] ELSE d

\* Bytes received into the request in progress.
DrvGetRxCount(d) == d.rxCnt

----------------------------------------------------------------------------
\* History of the logical byte stream.

StreamStore(b) ==
    IF sync /\ Len(stream) < SERIAL_RXBUF_SZ
    THEN /\ stream' = Append(stream, b)
         /\ sync' = TRUE
    ELSE /\ stream' = <<>>
         /\ sync' = FALSE

StreamReset(ok) ==
    /\ stream' = <<>>
    /\ sync' = ok

\* A read of at most len bytes from an unbounded, non-wrapping buffer.
StreamTake(len) ==
    LET m == Min(len, Len(stream))
    IN /\ expect' = IF sync THEN SubSeq(stream, 1, m) ELSE <<>>
       /\ stream' = IF sync THEN SubSeq(stream, m + 1, Len(stream)) ELSE <<>>
       /\ sync' = sync

----------------------------------------------------------------------------
\* Locals of Serial_SendBuf (cnt, stat), Serial_GetRxCount (u) and
\* Serial_ReadBuf (len, n, i, buf; u and t hold the two operands of the sum).
NoLocals ==
    [cnt |-> 0, stat |-> "OK", u |-> 0, t |-> 0, len |-> 0, n |-> 0, i |-> 0,
     buf |-> <<>>]

Init ==
    /\ Com = [drv |-> FALSE, rxc |-> 0, rxi |-> 0, txi |-> 0, txb |-> 0]
    /\ RxBuf = Zeroes(SERIAL_RXBUF_SZ)
    /\ TxBuf = Zeroes(SERIAL_TXBUF_SZ)
    /\ Drv = DrvOff
    /\ stream = <<>>
    /\ sync = FALSE
    /\ op = "none"
    /\ arg = 0
    /\ ret = 0
    /\ out = <<>>
    /\ expect = <<>>
    /\ trace = <<>>
    /\ fails = {}
    /\ cb = <<>>
    /\ pc = "idle"
    /\ loc = NoLocals

\* A reset of the receive counters that leaves the busy flag alone.
ComResetKeepBusy(c) == [c EXCEPT !.rxc = 0, !.rxi = 0, !.txi = 0]

\* Com as Serial_Initialize and Serial_SetBaudrate reset it.
ComReset(c) == [c EXCEPT !.rxc = 0, !.rxi = 0, !.txi = 0, !.txb = 0]

\* err of Serial_Initialize from the statuses of drv->Initialize and
\* drv->Receive; the statuses of PowerControl and Control are not looked at.
InitializeResult(sInit, sRecv) == IF sInit = "OK" /\ sRecv = "OK" THEN 0 ELSE 1

Serial_Initialize ==
    \E sInit \in Status :
      \E sPwr \in Made(sInit = "OK", Status) :
        LET d1 == IF sInit = "OK" THEN DrvPowerFull(Drv, sPwr) ELSE Drv
        IN \E sMode \in Made(sInit = "OK", DrvControlStatus(d1)),
              sTx \in Made(sInit = "OK", DrvControlStatus(d1)),
              sRx \in Made(sInit = "OK", DrvControlStatus(d1)),
              sRecv \in Made(sInit = "OK", DrvReceiveStatus(d1)) :
            LET err == InitializeResult(sInit, sRecv)
            IN /\ Com' = [ComReset(Com) EXCEPT !.drv = TRUE]
               /\ Drv' = IF sInit = "OK"
                         THEN DrvReceive(d1, 0, SERIAL_RXBUF_SZ, sRecv)
                         ELSE Drv
               /\ trace' = IF sInit = "OK"
                           THEN <<"Initialize", "PowerControl:FULL", "Control:MODE",
                                  "Control:TX", "Control:RX", "Receive">>
                           ELSE <<"Initialize">>
               /\ fails' = IF sInit = "OK"
                           THEN Failed({<<"PowerControl:FULL", sPwr>>,
                                        <<"Control:MODE", sMode>>,
                                        <<"Control:TX", sTx>>,
                                        <<"Control:RX", sRx>>,
                                        <<"Receive", sRecv>>})
                           ELSE {"Initialize"}
               /\ StreamReset(err = 0)
               /\ op' = "Initialize"
               /\ arg' = 0
               /\ ret' = err
               /\ out' = <<>>
               /\ expect' = <<>>
               /\ cb' = <<>>
               /\ UNCHANGED <<RxBuf, TxBuf, pc, loc>>

\* The calls of Serial_Uninitialize in program order.
UninitializeCalls ==
    <<"PowerControl:OFF", "Uninitialize", "memset:RxBuf", "memset:TxBuf">>

\* Every function that calls through Com.drv needs Com.drv set by
\* Serial_Initialize (Com.drv is NULL before).  The statuses of PowerControl
\* and Uninitialize are not looked at; a driver that accepted either call has
\* no power and no request in flight.
Serial_Uninitialize ==
    /\ Com.drv
    /\ \E sOff \in Status, sUninit \in Status :
        /\ Drv' = IF sOff = "OK" \/ sUninit = "OK" THEN DrvOff ELSE Drv
        /\ fails' = Failed({<<"PowerControl:OFF", sOff>>, <<"Uninitialize", sUninit>>})
    /\ RxBuf' = Zeroes(SERIAL_RXBUF_SZ)
    /\ TxBuf' = Zeroes(SERIAL_TXBUF_SZ)
    /\ trace' = UninitializeCalls
    /\ StreamReset(FALSE)
    /\ op' = "Uninitialize"
    /\ arg' = 0
    /\ ret' = 0
    /\ out' = <<>>
    /\ expect' = <<>>
    /\ cb' = <<>>
    /\ UNCHANGED <<Com, pc, loc>>

\* status of Serial_SetBaudrate after its driver calls: the first error among
\* abort, mode and Receive; the statuses of the TX and RX enable calls are not
\* looked at.
BaudrateStatus(sAbort, sMode, sTx, sRx, sRecv) ==
    IF sAbort # "OK" THEN sAbort
    ELSE IF sMode # "OK" THEN sMode
    ELSE sRecv

\* The baudrate is passed on to Control and changes nothing modelled here.
Serial_SetBaudrate ==
    /\ Com.drv
    /\ \E sAbort \in DrvControlStatus(Drv) :
        LET d1 == DrvAbortReceive(Drv, sAbort)
        IN \E sMode \in Made(sAbort = "OK", DrvControlStatus(d1)) :
             \E sTx \in Made(sAbort = "OK" /\ sMode = "OK", DrvControlStatus(d1)),
                sRx \in Made(sAbort = "OK" /\ sMode = "OK", DrvControlStatus(d1)),
                sRecv \in Made(sAbort = "OK" /\ sMode = "OK", DrvReceiveStatus(d1)) :
                LET armed  == sAbort = "OK" /\ sMode = "OK"
                    status == BaudrateStatus(sAbort, sMode, sTx, sRx, sRecv)
                    err    == IF status = "OK" THEN 0 ELSE 1
                IN /\ Com' = ComReset(Com)
                   /\ Drv' = IF armed
                             THEN DrvReceive(d1, 0, SERIAL_RXBUF_SZ, sRecv)
                             ELSE d1
                   /\ trace' = <<"Control:ABORT_RECEIVE">>
                               \o (IF sAbort = "OK" THEN <<"Control:MODE">> ELSE <<>>)
                               \o (IF armed
                                   THEN <<"Control:TX", "Control:RX", "Receive">>
                                   ELSE <<>>)
                   /\ fails' = Failed({<<"Control:ABORT_RECEIVE", sAbort>>})
                               \cup (IF sAbort = "OK"
                                     THEN Failed({<<"Control:MODE", sMode>>})
                                     ELSE {})
                               \cup (IF armed
                                     THEN Failed({<<"Control:TX", sTx>>,
                                                  <<"Control:RX", sRx>>,
                                                  <<"Receive", sRecv>>})
                                     ELSE {})
                   /\ StreamReset(err = 0)
                   /\ op' = "SetBaudrate"
                   /\ arg' = 0
                   /\ ret' = err
                   /\ out' = <<>>
                   /\ expect' = <<>>
                   /\ cb' = <<>>
                   /\ UNCHANGED <<RxBuf, TxBuf, pc, loc>>

\* Value Serial_GetTxFree returns for the control structure c.
GetTxFree(c) == IF c.txb # 0 THEN 0 ELSE SERIAL_TXBUF_SZ

Serial_GetTxFree ==
    /\ op' = "GetTxFree"
    /\ arg' = 0
    /\ ret' = GetTxFree(Com)
    /\ fails' = {}
    /\ out' = <<>>
    /\ expect' = <<>>
    /\ trace' = <<>>
    /\ cb' = <<>>
    /\ UNCHANGED <<Com, RxBuf, TxBuf, Drv, stream, sync, pc, loc>>

\* Variant: len is not limited to the transmit buffer size.
TxCountNoLimit(len) == len

\* cnt of Serial_SendBuf: len limited to the transmit buffer size.
TxCount(len) == IF len > SERIAL_TXBUF_SZ THEN SERIAL_TXBUF_SZ ELSE len

\* memcpy (TxBuf, buf, cnt); buf is a sequence indexed from 1.
Memcpy(dst, buf, cnt) == [i \in DOMAIN dst |-> IF i < cnt THEN buf[i + 1] ELSE dst[i]]

\* Variant: the busy flag is set whatever drv->Send returned.
SendBusyAlways(stat) == 1

\* Tx busy flag and return value chosen from the status of drv->Send.
SendBusy(stat) == IF stat = "OK" THEN 1 ELSE 0
SendResult(stat, cnt) == IF stat = "OK" THEN cnt ELSE -1

\* The driver calls Serial_SendBuf makes.
SendCalls == <<"Send">>

Serial_SendBuf ==
    /\ Com.drv
    /\ \E buf \in Payloads :
        LET cnt == TxCount(Len(buf))
        IN \E stat \in DrvSendStatus(Drv) :
            /\ TxBuf' = Memcpy(TxBuf, buf, cnt)
            /\ Drv' = DrvSend(Drv, cnt, stat)
            /\ Com' = [Com EXCEPT !.txb = SendBusy(stat)]
            /\ trace' = SendCalls
            /\ fails' = Failed({<<"Send", stat>>})
            /\ op' = "SendBuf"
            /\ arg' = buf
            /\ ret' = SendResult(stat, cnt)
            /\ out' = <<>>
            /\ expect' = <<>>
            /\ cb' = <<>>
            /\ UNCHANGED <<RxBuf, stream, sync, pc, loc>>

\* a & b on naturals.
RECURSIVE BitAnd(_, _)
BitAnd(a, b) ==
    IF a = 0 \/ b = 0 THEN 0
    ELSE (a % 2) * (b % 2) + 2 * BitAnd(a \div 2, b \div 2)

\* Variant: the bytes of the request in progress are not counted.
RxAvailNoPending(rxc, u, rxi) == (rxc - rxi) % Modulus

\* Variant: the consumed count is not subtracted.
RxAvailNoConsumed(rxc, u, rxi) == (rxc + u) % Modulus

\* Variant: signed arithmetic, a negative difference counts as nothing.
RxAvailSigned(rxc, u, rxi) == IF rxc + u >= rxi THEN rxc + u - rxi ELSE 0

\* n = Com.rxc + GetRxCount() - Com.rxi in unsigned arithmetic.
RxAvail(rxc, u, rxi) == (rxc + u - rxi) % Modulus

\* Variant: the count is not limited, every read copies len bytes.
ClampLenNone(n, len) == len

\* if (n > len) n = len.
ClampLen(n, len) == IF n > len THEN len ELSE n

\* Variant: the index is taken after the increment (k = ++Com.rxi).
RxIndexPre(k) == BitAnd(k + 1, SERIAL_RXBUF_SZ - 1)

\* k &= SERIAL_RXBUF_SZ-1.
RxIndex(k) == BitAnd(k, SERIAL_RXBUF_SZ - 1)

\* Com.rxi++ in unsigned arithmetic.
RxiNext(rxi) == (rxi + 1) % Modulus

\* The copy loop of Serial_ReadBuf: the read index and buf after it.
RECURSIVE ReadLoop(_, _, _, _)
ReadLoop(i, n, rxi, buf) ==
    IF i < n
    THEN ReadLoop(i + 1, n, RxiNext(rxi), Append(buf, RxBuf[RxIndex(rxi)]))
    ELSE [rxi |-> rxi, buf |-> buf]

Serial_ReadBuf ==
    /\ Com.drv
    /\ \E len \in ReadLens :
        LET n   == ClampLen(RxAvail(Com.rxc, DrvGetRxCount(Drv), Com.rxi), len)
            res == ReadLoop(0, n, Com.rxi, <<>>)
        IN /\ Com' = [Com EXCEPT !.rxi = res.rxi]
           /\ out' = res.buf
           /\ ret' = n
           /\ StreamTake(len)
           /\ op' = "ReadBuf"
           /\ arg' = len
           /\ trace' = <<"GetRxCount">>
           /\ fails' = {}
           /\ cb' = <<>>
           /\ UNCHANGED <<RxBuf, TxBuf, Drv, pc, loc>>

Serial_GetRxCount ==
    /\ Com.drv
    /\ op' = "GetRxCount"
    /\ arg' = 0
    /\ ret' = RxAvail(Com.rxc, DrvGetRxCount(Drv), Com.rxi)
    /\ out' = <<>>
    /\ expect' = <<>>
    /\ trace' = <<"GetRxCount">>
    /\ fails' = {}
    /\ cb' = <<>>
    /\ UNCHANGED <<Com, RxBuf, TxBuf, Drv, stream, sync, pc, loc>>

\* Variant: the counter grows by the count the driver reports.
RxcAddCount(rxc) == (rxc + DrvGetRxCount(Drv)) % Modulus

\* Com.rxc += SERIAL_RXBUF_SZ in unsigned arithmetic.
RxcAdd(rxc) == (rxc + SERIAL_RXBUF_SZ) % Modulus

\* Driver calls and counter updates of the receive-complete branch, in order.
RearmTrace == <<"Receive", "rxc+=">>

\* Variant: send-complete leaves the busy flag as it is.
TxDoneKeep(txb) == txb

\* Tx busy flag after the send-complete branch.
TxDone(txb) == 0

\* A callback that submits a new Receive on every receive event.
RearmsOnTimeout(event) == event \cap {"RX_TIMEOUT", "RECEIVE_COMPLETE"} # {}

\* Whether the callback submits a new Receive on event.
Rearms(event) == "RECEIVE_COMPLETE" \in event

\* Flags without the receive error.
CbFlagsNoError(event, stat) ==
    (IF event \cap {"RX_TIMEOUT", "RECEIVE_COMPLETE"} # {}
     THEN {"RX_DATA_AVAILABLE"} ELSE {})
    \cup (IF "SEND_COMPLETE" \in event THEN {"TX_DATA_COMPLETED"} ELSE {})

\* The flags the callback passes to Serial_Cb; stat is the status of the
\* Receive it submitted, if it did.
CbFlags(event, stat) ==
    (IF event \cap {"RX_TIMEOUT", "RECEIVE_COMPLETE"} # {}
     THEN {"RX_DATA_AVAILABLE"} ELSE {})
    \cup (IF event \cap {"RX_TIMEOUT", "RECEIVE_COMPLETE"} # {}
             /\ Rearms(event) /\ stat # "OK"
          THEN {"RX_ERROR"} ELSE {})
    \cup (IF "SEND_COMPLETE" \in event THEN {"TX_DATA_COMPLETED"} ELSE {})

\* The Serial_Cb calls of the callback.
CbCalls(flags) == <<flags>>

\* The callback on event, entered with the driver in state d; stat is the
\* status of the Receive it submits.
UART_Callback(event, d, stat) ==
    LET rx == event \cap {"RX_TIMEOUT", "RECEIVE_COMPLETE"} # {}
        rc == rx /\ Rearms(event)
        sc == "SEND_COMPLETE" \in event
    IN /\ Drv' = IF rc THEN DrvReceive(d, 0, SERIAL_RXBUF_SZ, stat) ELSE d
       /\ Com' = [Com EXCEPT !.rxc = IF rc THEN RxcAdd(@) ELSE @,
                             !.txb = IF sc THEN TxDone(@) ELSE @]
       /\ trace' = IF rc THEN RearmTrace ELSE <<>>
       /\ fails' = IF rc THEN Failed({<<"Receive", stat>>}) ELSE {}
       /\ cb' = CbCalls(CbFlags(event, stat))

\* A byte arrives that does not complete the receive request.
DrvRxByte ==
    /\ Drv.power
    /\ Drv.rxArmed
    /\ Drv.rxCnt + 1 < Drv.rxNum
    /\ \E b \in Byte :
        /\ RxBuf' = [RxBuf EXCEPT ![Drv.rxOff + Drv.rxCnt] = b]
        /\ StreamStore(b)
    /\ Drv' = [Drv EXCEPT !.rxCnt = @ + 1]
    /\ op' = "DrvRxByte"
    /\ arg' = 0
    /\ ret' = 0
    /\ out' = <<>>
    /\ expect' = <<>>
    /\ trace' = <<>>
    /\ fails' = {}
    /\ cb' = <<>>
    /\ UNCHANGED <<Com, TxBuf, pc, loc>>

\* The driver signals an event set.  Receive-complete comes with the byte that
\* fills the request, send-complete ends the transmission in flight.  limit
\* bounds Com.rxc at a receive-complete.
DrvSignalEventUpTo(limit) ==
    /\ Drv.power
    /\ \E event \in (SUBSET ARM_USART_EVENTS) \ {{}} :
        LET rc == "RECEIVE_COMPLETE" \in event
            sc == "SEND_COMPLETE" \in event
            d1 == [Drv EXCEPT !.rxArmed = IF rc THEN FALSE ELSE @,
                              !.rxCnt = IF rc THEN 0 ELSE @,
                              !.txBusy = IF sc THEN FALSE ELSE @,
                              !.txNum = IF sc THEN 0 ELSE @]
        IN /\ rc => /\ Drv.rxArmed
                    /\ Drv.rxCnt + 1 = Drv.rxNum
                    /\ Com.rxc < limit
           /\ "RX_TIMEOUT" \in event => Drv.rxArmed
           /\ sc => Drv.txBusy
           /\ \E stat \in (IF Rearms(event) THEN DrvReceiveStatus(d1) ELSE {"ERROR"}) :
                 UART_Callback(event, d1, stat)
           /\ IF rc
              THEN \E b \in Byte :
                      /\ RxBuf' = [RxBuf EXCEPT ![Drv.rxOff + Drv.rxCnt] = b]
                      /\ StreamStore(b)
              ELSE UNCHANGED <<RxBuf, stream, sync>>
           /\ op' = "UART_Callback"
           /\ arg' = event
           /\ ret' = 0
           /\ out' = <<>>
           /\ expect' = <<>>
           /\ UNCHANGED <<TxBuf, pc, loc>>

DrvSignalEvent == DrvSignalEventUpTo(MaxCompletions * SERIAL_RXBUF_SZ)

Next ==
    \/ Serial_Initialize
    \/ Serial_Uninitialize
    \/ Serial_SetBaudrate
    \/ Serial_GetTxFree
    \/ Serial_SendBuf
    \/ Serial_ReadBuf
    \/ Serial_GetRxCount
    \/ DrvRxByte
    \/ DrvSignalEvent

Spec == Init /\ [][Next]_vars

----------------------------------------------------------------------------
\* The API functions run by one application thread, split at the points where
\* the driver callback can run in between: Serial_SendBuf between drv->Send
\* and the write of Com.txb, Serial_GetRxCount and Serial_ReadBuf between the
\* reads of the driver count and of Com.rxc, and Serial_ReadBuf between the
\* iterations of its copy loop.  The callback itself runs to completion.

\* What a step inside a function leaves of the last operation's record.
Inside(step, a) ==
    /\ op' = step
    /\ arg' = a
    /\ ret' = 0
    /\ out' = <<>>
    /\ expect' = <<>>
    /\ trace' = <<>>
    /\ fails' = {}
    /\ cb' = <<>>

\* Serial_SendBuf up to the return of drv->Send.
Serial_SendBuf_Send ==
    /\ pc = "idle"
    /\ Com.drv
    /\ \E buf \in Payloads :
        LET cnt == TxCount(Len(buf))
        IN \E stat \in DrvSendStatus(Drv) :
            /\ TxBuf' = Memcpy(TxBuf, buf, cnt)
            /\ Drv' = DrvSend(Drv, cnt, stat)
            /\ loc' = [NoLocals EXCEPT !.cnt = cnt, !.stat = stat]
            /\ Inside("SendBuf:Send", buf)
    /\ pc' = "SendBuf:flag"
    /\ UNCHANGED <<Com, RxBuf, stream, sync>>

\* Serial_SendBuf from the test of stat to the return.
Serial_SendBuf_Flag ==
    /\ pc = "SendBuf:flag"
    /\ Com' = [Com EXCEPT !.txb = SendBusy(loc.stat)]
    /\ Inside("SendBuf", 0)
    /\ pc' = "idle"
    /\ loc' = NoLocals
    /\ UNCHANGED <<RxBuf, TxBuf, Drv, stream, sync>>

\* u = Com.drv->GetRxCount().
Serial_GetRxCount_Count ==
    /\ pc = "idle"
    /\ Com.drv
    /\ loc' = [NoLocals EXCEPT !.u = DrvGetRxCount(Drv)]
    /\ Inside("GetRxCount:count", 0)
    /\ pc' = "GetRxCount:sum"
    /\ UNCHANGED <<Com, RxBuf, TxBuf, Drv, stream, sync>>

\* n = Com.rxc + u; n -= Com.rxi; return (n).
Serial_GetRxCount_Sum ==
    /\ pc = "GetRxCount:sum"
    /\ op' = "GetRxCount"
    /\ arg' = 0
    /\ ret' = RxAvail(Com.rxc, loc.u, Com.rxi)
    /\ out' = <<>>
    /\ expect' = <<>>
    /\ trace' = <<>>
    /\ fails' = {}
    /\ cb' = <<>>
    /\ pc' = "idle"
    /\ loc' = NoLocals
    /\ UNCHANGED <<Com, RxBuf, TxBuf, Drv, stream, sync>>

\* Serial_ReadBuf evaluates Com.rxc + Com.drv->GetRxCount() with the call
\* first: the count is read, Com.rxc is still to be read.
Serial_ReadBuf_Count ==
    /\ pc = "idle"
    /\ Com.drv
    /\ \E len \in ReadLens :
        /\ loc' = [NoLocals EXCEPT !.len = len, !.u = DrvGetRxCount(Drv)]
        /\ Inside("ReadBuf:count", len)
    /\ pc' = "ReadBuf:total"
    /\ UNCHANGED <<Com, RxBuf, TxBuf, Drv, stream, sync>>

\* The same sum with Com.rxc read first: the call is still to be made.
Serial_ReadBuf_Total ==
    /\ pc = "idle"
    /\ Com.drv
    /\ \E len \in ReadLens :
        /\ loc' = [NoLocals EXCEPT !.len = len, !.t = Com.rxc]
        /\ Inside("ReadBuf:total", len)
    /\ pc' = "ReadBuf:count"
    /\ UNCHANGED <<Com, RxBuf, TxBuf, Drv, stream, sync>>

\* The second operand is read; n -= Com.rxi; if (n > len) n = len.
Serial_ReadBuf_Sum ==
    /\ pc \in {"ReadBuf:total", "ReadBuf:count"}
    /\ LET t == IF pc = "ReadBuf:total" THEN Com.rxc ELSE loc.t
           u == IF pc = "ReadBuf:count" THEN DrvGetRxCount(Drv) ELSE loc.u
       IN loc' = [loc EXCEPT !.t = t, !.u = u,
                             !.n = ClampLen(RxAvail(t, u, Com.rxi), loc.len),
                             !.i = 0]
    /\ Inside("ReadBuf:sum", loc.len)
    /\ pc' = "ReadBuf:copy"
    /\ UNCHANGED <<Com, RxBuf, TxBuf, Drv, stream, sync>>

\* One iteration of the copy loop.
Serial_ReadBuf_Copy ==
    /\ pc = "ReadBuf:copy"
    /\ loc.i < loc.n
    /\ Com' = [Com EXCEPT !.rxi = RxiNext(@)]
    /\ loc' = [loc EXCEPT !.i = @ + 1,
                          !.buf = Append(@, RxBuf[RxIndex(Com.rxi)])]
    /\ Inside("ReadBuf:copy", loc.len)
    /\ UNCHANGED <<RxBuf, TxBuf, Drv, stream, sync, pc>>

\* The loop is done: return (n).  The stream history follows atomic reads only.
Serial_ReadBuf_Return ==
    /\ pc = "ReadBuf:copy"
    /\ ~(loc.i < loc.n)
    /\ op' = "ReadBuf"
    /\ arg' = loc.len
    /\ ret' = loc.n
    /\ out' = loc.buf
    /\ expect' = <<>>
    /\ trace' = <<>>
    /\ fails' = {}
    /\ cb' = <<>>
    /\ StreamReset(FALSE)
    /\ pc' = "idle"
    /\ loc' = NoLocals
    /\ UNCHANGED <<Com, RxBuf, TxBuf, Drv>>

\* The functions that are not split run while the application is in none.
Serial_Initialize_Idle == pc = "idle" /\ Serial_Initialize
Serial_SetBaudrate_Idle == pc = "idle" /\ Serial_SetBaudrate

\* The transmit path with the callback interleaved.
NextIrqTx ==
    \/ Serial_Initialize_Idle
    \/ Serial_SendBuf_Send
    \/ Serial_SendBuf_Flag
    \/ DrvSignalEvent

SpecIrqTx == Init /\ [][NextIrqTx]_vars

\* The receive path with the callback interleaved.
NextIrqRx ==
    \/ Serial_Initialize_Idle
    \/ Serial_SetBaudrate_Idle
    \/ Serial_GetRxCount_Count
    \/ Serial_GetRxCount_Sum
    \/ Serial_ReadBuf_Count
    \/ Serial_ReadBuf_Total
    \/ Serial_ReadBuf_Sum
    \/ Serial_ReadBuf_Copy
    \/ Serial_ReadBuf_Return
    \/ DrvRxByte
    \/ DrvSignalEvent

SpecIrqRx == Init /\ [][NextIrqRx]_vars

----------------------------------------------------------------------------
\* The receive path with no limit on the receive-complete notifications: the
\* counters run through their whole range and wrap.
DrvSignalEventWrap == DrvSignalEventUpTo(Modulus)

NextWrap ==
    \/ Serial_Initialize
    \/ Serial_SetBaudrate
    \/ Serial_ReadBuf
    \/ Serial_GetRxCount
    \/ DrvRxByte
    \/ DrvSignalEventWrap

SpecWrap == Init /\ [][NextWrap]_vars

----------------------------------------------------------------------------
\* Properties.

\* C1 as stated: the consumed count never exceeds the completed count,
\* Com.rxi <= Com.rxc, after every operation.
C1_RingInvariant == Com.rxi <= Com.rxc

\* C1 amended: while the driver has power, the consumed count never exceeds
\* the completed count plus the bytes of the request in progress.
C1_RingInvariantPending ==
    Drv.power => Com.rxi <= Com.rxc + DrvGetRxCount(Drv)

\* C1: a read has consumed the pending bytes after a completed request, so that
\* the consumed count is past the completed count.
C1_Witness ==
    /\ op = "ReadBuf"
    /\ ret > 0
    /\ Drv.power
    /\ Com.rxc > 0
    /\ DrvGetRxCount(Drv) > 0
    /\ Com.rxi = Com.rxc + DrvGetRxCount(Drv)

\* C2: as long as no unread byte was overwritten since the last reset that armed
\* a receive, every Serial_ReadBuf returns the bytes an unbounded, non-wrapping
\* buffer holding the received stream returns for the same length, in order.
C2_Wraparound ==
    (op = "ReadBuf" /\ sync) => (out = expect /\ ret = Len(expect))

\* C2: a read of two different bytes whose range straddles the end of RxBuf.
C2_Witness ==
    /\ op = "ReadBuf"
    /\ sync
    /\ ret = 2
    /\ Com.rxi > SERIAL_RXBUF_SZ
    /\ Com.rxi % SERIAL_RXBUF_SZ = 1
    /\ out[1] # out[2]

\* C3: Serial_ReadBuf returns min(available, len), with available the completed
\* count plus the driver's pending count minus the consumed count before the
\* call, advances Com.rxi by the returned amount, and returns 0 leaving Com.rxi
\* unchanged when nothing is available.
C3_ReadCount ==
    [][op' = "ReadBuf" =>
        LET available == (Com.rxc + Drv.rxCnt - Com.rxi) % Modulus
        IN /\ ret' = Min(available, arg')
           /\ Com'.rxi = (Com.rxi + ret') % Modulus
           /\ Len(out') = ret'
           /\ available = 0 => (ret' = 0 /\ Com'.rxi = Com.rxi)]_vars

\* C3: a read of half the buffer size when a full buffer is available returned
\* half and left the other half available.
C3_Witness ==
    /\ op = "ReadBuf"
    /\ Drv.power
    /\ 2 * arg = SERIAL_RXBUF_SZ
    /\ ret = arg
    /\ Com.rxi = arg
    /\ Com.rxc + Drv.rxCnt - Com.rxi = SERIAL_RXBUF_SZ - arg

\* C4: Serial_GetRxCount returns the completed count plus the driver's pending
\* count minus the consumed count and changes no state of the transport or the
\* driver.
C4_GetRxCount ==
    [][op' = "GetRxCount" =>
        /\ ret' = (Com.rxc + Drv.rxCnt - Com.rxi) % Modulus
        /\ UNCHANGED <<Com, RxBuf, TxBuf, Drv>>]_vars

\* C4: two receive-complete notifications without a read and no pending bytes:
\* Com.rxc is twice the buffer size, Com.rxi is 0 and Serial_GetRxCount
\* returned twice the buffer size.
C4_Witness ==
    /\ op = "GetRxCount"
    /\ Com.rxc = 2 * SERIAL_RXBUF_SZ
    /\ Com.rxi = 0
    /\ Drv.rxCnt = 0
    /\ ret = 2 * SERIAL_RXBUF_SZ

\* C5: on every receive-complete notification the callback submits a Receive
\* for the whole of RxBuf before it adds to Com.rxc, and Com.rxc grows by
\* exactly the buffer size whatever the driver counted and whether or not the
\* Receive was accepted; an accepted Receive is armed at RxBuf[0] for the full
\* size before the step ends.
C5_Rearm ==
    [][(op' = "UART_Callback" /\ "RECEIVE_COMPLETE" \in arg') =>
        /\ Com'.rxc = Com.rxc + SERIAL_RXBUF_SZ
        /\ trace' = <<"Receive", "rxc+=">>
        /\ "RX_ERROR" \notin cb'[1] =>
              /\ Drv'.rxArmed
              /\ Drv'.rxOff = 0
              /\ Drv'.rxNum = SERIAL_RXBUF_SZ
              /\ Drv'.rxCnt = 0
        /\ "RX_ERROR" \in cb'[1] => ~Drv'.rxArmed]_vars

\* C5: a second receive-complete notification whose Receive was rejected.
C5_Witness ==
    /\ op = "UART_Callback"
    /\ "RECEIVE_COMPLETE" \in arg
    /\ "RX_ERROR" \in cb[1]
    /\ Com.rxc = 2 * SERIAL_RXBUF_SZ

\* C6: Serial_GetTxFree returns the transmit buffer size right after
\* Serial_Initialize and right after a send-complete notification, 0 right
\* after a Serial_SendBuf the driver accepted, and never anything else.
C6_TxFreeBinary ==
    /\ GetTxFree(Com) \in {0, SERIAL_TXBUF_SZ}
    /\ op = "Initialize" => GetTxFree(Com) = SERIAL_TXBUF_SZ
    /\ (op = "UART_Callback" /\ "SEND_COMPLETE" \in arg) =>
          GetTxFree(Com) = SERIAL_TXBUF_SZ
    /\ (op = "SendBuf" /\ ret >= 0) => GetTxFree(Com) = 0
    /\ op = "GetTxFree" =>
          /\ ret \in {0, SERIAL_TXBUF_SZ}
          /\ ret = 0 <=> Com.txb # 0

\* C6: the send-complete notification of an accepted send has arrived and the
\* whole transmit buffer is free again.
C6_Witness ==
    /\ op = "UART_Callback"
    /\ "SEND_COMPLETE" \in arg
    /\ ~Drv.txBusy
    /\ GetTxFree(Com) = SERIAL_TXBUF_SZ
    /\ \E i \in DOMAIN TxBuf : TxBuf[i] # 0

\* C7 as stated: once the driver has accepted a send, the busy flag Com.txb stays
\* set over every Serial_SendBuf, Serial_SetBaudrate and notification for as
\* long as that transmission has not been signalled complete.
C7_BusyWhileInFlight ==
    [][(/\ Drv.txBusy
        /\ Drv.txNum > 0
        /\ Drv'.txBusy
        /\ Com.txb # 0
        /\ op' \in {"SendBuf", "SetBaudrate", "UART_Callback"}) =>
        Com'.txb # 0]_vars

\* C8 as stated, for the bytes handed to the driver: while a transmission
\* stays in flight over a step, no byte of the submitted part of TxBuf changes.
C8_NoWriteInFlight ==
    [][(Drv.txBusy /\ Drv'.txBusy) =>
        \A i \in DOMAIN TxBuf : i < Drv.txNum => TxBuf'[i] = TxBuf[i]]_vars

\* C9: a Serial_SendBuf the driver accepted has copied the first min(len, T)
\* bytes of the input to TxBuf and nothing more, submitted that many bytes, and
\* returned that count.
C9_Truncation ==
    [][(op' = "SendBuf" /\ ret' >= 0) =>
        LET cnt == Min(Len(arg'), SERIAL_TXBUF_SZ)
        IN /\ ret' = cnt
           /\ Drv'.txBusy
           /\ Drv'.txNum = cnt
           /\ \A i \in DOMAIN TxBuf :
                 TxBuf'[i] = IF i < cnt THEN arg'[i + 1] ELSE TxBuf[i]]_vars

\* C9: a payload longer than TxBuf, whose bytes differ, was accepted; TxBuf
\* holds its first bytes and the buffer size was returned.
C9_Witness ==
    /\ op = "SendBuf"
    /\ Len(arg) > SERIAL_TXBUF_SZ
    /\ ret = SERIAL_TXBUF_SZ
    /\ arg[Len(arg)] # arg[1]
    /\ \A i \in DOMAIN TxBuf : TxBuf[i] = arg[i + 1]

\* C10: Serial_SendBuf calls drv->Send exactly once; if the driver rejected the
\* call it returns -1 with Com.txb clear, if the driver accepted it returns a
\* count >= 0 with Com.txb set.
C10_SendStatus ==
    [][op' = "SendBuf" =>
        /\ trace' = <<"Send">>
        /\ IF ~Drv.txBusy /\ Drv'.txBusy
           THEN ret' >= 0 /\ Com'.txb = 1
           ELSE ret' = -1 /\ Com'.txb = 0 /\ Drv' = Drv]_vars

\* C10: an idle, powered driver rejected the send; -1 was returned and the busy
\* flag is clear.
C10_Witness ==
    /\ op = "SendBuf"
    /\ Drv.power
    /\ ~Drv.txBusy
    /\ ret = -1
    /\ Com.txb = 0

\* C11: the callback calls Serial_Cb exactly once, with exactly these flags:
\* data available iff the event has receive-timeout or receive-complete,
\* transmit complete iff it has send-complete, receive error iff it has
\* receive-complete and the Receive that re-arms was rejected.
C11_EventTranslation ==
    op = "UART_Callback" =>
        /\ Len(cb) = 1
        /\ cb[1] = (IF arg \cap {"RX_TIMEOUT", "RECEIVE_COMPLETE"} # {}
                    THEN {"RX_DATA_AVAILABLE"} ELSE {})
                   \cup (IF "SEND_COMPLETE" \in arg
                         THEN {"TX_DATA_COMPLETED"} ELSE {})
                   \cup (IF "RECEIVE_COMPLETE" \in arg /\ "Receive" \in fails
                         THEN {"RX_ERROR"} ELSE {})

C11_Witness ==
    /\ op = "UART_Callback"
    /\ arg = {"RECEIVE_COMPLETE", "SEND_COMPLETE", "OTHER"}
    /\ cb = <<{"RX_DATA_AVAILABLE", "RX_ERROR", "TX_DATA_COMPLETED"}>>

\* C12: Serial_SetBaudrate leaves rxc, rxi and txb at 0 whatever they were and
\* whichever driver call failed; from rxc = 0 the counter changes only at a
\* receive-complete, and a receive-complete then leaves it at SERIAL_RXBUF_SZ.
C12_BaudrateReset ==
    [][/\ op' = "SetBaudrate" => Com'.rxc = 0 /\ Com'.rxi = 0 /\ Com'.txb = 0
       /\ (Com.rxc = 0 /\ Com'.rxc # 0) =>
              op' = "UART_Callback" /\ "RECEIVE_COMPLETE" \in arg'
       /\ (Com.rxc = 0 /\ op' = "UART_Callback" /\ "RECEIVE_COMPLETE" \in arg') =>
              Com'.rxc = SERIAL_RXBUF_SZ]_vars

\* A failed call (the abort was rejected) with a transmission and a partly
\* filled receive still in flight.
C12_Witness ==
    /\ op = "SetBaudrate"
    /\ ret = 1
    /\ fails = {"Control:ABORT_RECEIVE"}
    /\ Drv.txBusy /\ Drv.rxArmed /\ Drv.rxCnt > 0
    /\ Com.rxc = 0 /\ Com.rxi = 0 /\ Com.txb = 0

\* C13: in Serial_SetBaudrate a failure of any driver call (abort, mode, TX
\* enable, RX enable, Receive) is the last call made and gives 1; 0 is
\* returned only if no call failed and a receive of the full capacity is
\* armed.
C13_BaudrateFailStops ==
    op = "SetBaudrate" =>
        /\ fails # {} => ret = 1 /\ fails = {trace[Len(trace)]}
        /\ ret = 0 => /\ fails = {}
                      /\ Drv.rxArmed /\ Drv.rxNum = SERIAL_RXBUF_SZ /\ Drv.rxCnt = 0

\* C14: Serial_Initialize returns 1 whenever a driver call (Initialize,
\* PowerControl, mode, TX enable, RX enable, Receive) failed, and then no
\* receive is in flight; 0 is returned only with the counters at 0, txb
\* clear and a receive of the full capacity armed.
C14_InitializeFail ==
    op = "Initialize" =>
        /\ fails # {} => ret = 1 /\ ~Drv.rxArmed
        /\ ret = 0 => /\ Com.rxc = 0 /\ Com.rxi = 0 /\ Com.txi = 0 /\ Com.txb = 0
                      /\ Drv.rxArmed /\ Drv.rxNum = SERIAL_RXBUF_SZ /\ Drv.rxCnt = 0

\* C15: Serial_Uninitialize returns 0 whatever the driver returns,
\* powers the driver off before it releases it, leaves both buffers zero, and
\* leaves rxc, rxi and txb cleared, so that Serial_GetTxFree gives
\* SERIAL_TXBUF_SZ.
C15_UninitializeClears ==
    op = "Uninitialize" =>
        /\ ret = 0
        /\ SubSeq(trace, 1, 2) = <<"PowerControl:OFF", "Uninitialize">>
        /\ RxBuf = Zeroes(SERIAL_RXBUF_SZ)
        /\ TxBuf = Zeroes(SERIAL_TXBUF_SZ)
        /\ Com.rxc = 0 /\ Com.rxi = 0 /\ Com.txb = 0
        /\ GetTxFree(Com) = SERIAL_TXBUF_SZ

\* C20: a notification of send-complete alone clears txb and leaves rxc, rxi,
\* both buffers and the receive request as they were; one of receive-timeout
\* alone changes nothing in Com or the buffers and submits no Receive; no
\* notification changes rxi.
C20_CallbackFrame ==
    [][op' = "UART_Callback" =>
        /\ Com'.rxi = Com.rxi
        /\ arg' = {"SEND_COMPLETE"} =>
              /\ Com' = [Com EXCEPT !.txb = 0]
              /\ RxBuf' = RxBuf /\ TxBuf' = TxBuf
              /\ Drv'.rxArmed = Drv.rxArmed /\ Drv'.rxNum = Drv.rxNum
              /\ Drv'.rxCnt = Drv.rxCnt /\ Drv'.rxOff = Drv.rxOff
              /\ trace' = <<>>
        /\ arg' = {"RX_TIMEOUT"} =>
              /\ Com' = Com /\ RxBuf' = RxBuf /\ TxBuf' = TxBuf
              /\ Drv' = Drv
              /\ trace' = <<>>]_vars

\* A send-complete alone while a receive is partly filled and bytes are unread.
C20_Witness ==
    /\ op = "UART_Callback"
    /\ arg = {"SEND_COMPLETE"}
    /\ Com.txb = 0 /\ ~Drv.txBusy
    /\ Com.rxc > Com.rxi /\ Com.rxi > 0
    /\ Drv.rxArmed /\ Drv.rxCnt > 0

\* C19: with the counters wrapping at Modulus (SERIAL_RXBUF_SZ divides it),
\* as long as no unread byte was overwritten the count of Serial_GetRxCount
\* is the number of unread bytes and every read returns the bytes of the
\* stream in order, also when rxc or rxi has wrapped; rxc changes only by
\* SERIAL_RXBUF_SZ modulo Modulus or to 0.
C19_CounterWrap ==
    [][/\ sync' => RxAvail(Com'.rxc, DrvGetRxCount(Drv'), Com'.rxi) = Len(stream')
       /\ (op' = "GetRxCount" /\ sync') => ret' = Len(stream')
       /\ (op' = "ReadBuf" /\ sync') => out' = expect' /\ ret' = Len(expect')
       /\ Com'.rxc \in {Com.rxc, (Com.rxc + SERIAL_RXBUF_SZ) % Modulus, 0}]_vars

\* A read of two different bytes that takes rxi from Modulus - 1 to 1 after
\* rxc has wrapped to 0.
C19_Witness ==
    /\ op = "ReadBuf"
    /\ sync
    /\ ret = 2
    /\ Com.rxc = 0 /\ Com.rxi = 1 /\ Drv.rxCnt = 1
    /\ out = expect
    /\ out[1] # out[2]

\* C16: with the callback free to run between the statements of
\* Serial_SendBuf and the driver signalling send-complete once for every
\* Send it accepted, whenever no transmission is in flight and the
\* application is not inside Serial_SendBuf, txb is clear.
C16_NoStuckBusy ==
    (pc # "SendBuf:flag" /\ ~Drv.txBusy) => Com.txb = 0

\* C17: with the callback free to run between the reads of the driver count
\* and of rxc, the value Serial_GetRxCount returns, and what Serial_ReadBuf
\* still has to copy of its n, is at most the bytes stored since the last
\* reset (rxc plus the driver count, the callback being atomic) minus rxi.
C17_NoOverReport ==
    /\ op = "GetRxCount" => ret <= Com.rxc + DrvGetRxCount(Drv) - Com.rxi
    /\ pc = "ReadBuf:copy" =>
          loc.n - loc.i <= Com.rxc + DrvGetRxCount(Drv) - Com.rxi

\* C18: in every state, also between the statements of Serial_ReadBuf,
\* rxi <= rxc + driver count: no read passes what the driver has stored.
C18_ConsumerBehind ==
    Com.rxi <= Com.rxc + DrvGetRxCount(Drv)

====
